---- MODULE Spec2Model ----
(***************************************************************************)
(* Connection lease manager (ConnectionPoolManager) and transaction        *)
(* lifecycle manager (TransactionManager) of peculiar-orm, as one state    *)
(* machine.  Every async method is cut at its awaits: the code between two *)
(* awaits is one action (Node runs it without interleaving).  The pg       *)
(* driver pool is the environment: it hands out an idle client, or a new   *)
(* one while fewer than PoolMax are alive, and a released client is kept   *)
(* idle unless release() is given a truthy argument.                       *)
(***************************************************************************)
EXTENDS Integers, Sequences, FiniteSets, TLC

\* ---------------------------------------------------------------- bounds
PoolMax == 1          \* poolOptions.max of the modelled configuration
MaxClients == 2       \* client objects the driver creates in one run
MaxConn == 3          \* getConnection invocations in one run
MaxPending == 1       \* direct getConnection invocations in flight at once
MaxTxn == 2           \* beginTransaction invocations in one run
MaxFailed == 3        \* cap of txMetrics.failedTransactions

\* ------------------------------------------------------ program constants
MAX_HISTORY_SIZE == 200
MAX_TXN_HISTORY == 100
MAX_DURATIONS == 1000

Clients == 1..MaxClients
ConnIds == 1..MaxConn
TxnIds == 1..MaxTxn
\* The slot of the getConnection call that beginTransaction makes.
TM == 0
Slots == 0..MaxPending        \* the slots above TM are direct callers' calls

NoOptions == [isolationLevel |-> "none", readOnly |-> "undefined"]
Serializable == [isolationLevel |-> "SERIALIZABLE", readOnly |-> "true"]
OptionChoices == {NoOptions, Serializable}   \* what beginTransaction is called with
CallerOptions == {NoOptions}                 \* what direct callers pass

VARIABLES
    pgPool,                \* driver pool, per client: fresh | idle | out | removed
    clientObj,             \* per client object: the properties the manager sets on it
    connectionTimestamps,  \* ConnectionPoolManager.connectionTimestamps (tracked ids)
    timer,                 \* per connection id: the wrapper's current timer is pending
    metrics,               \* ConnectionPoolManager.metrics
    hasErrorListener,      \* the application listens to the manager's 'error' event
    calls,                 \* getConnection invocations that are suspended, per slot
    nextConnId,            \* the next internalConnectionId
    lease,                 \* per connection id: who holds the handle, and its history
    handler,               \* per connection id: the query-timeout callback's position
    tm,                    \* TransactionManager's private fields
    txMetrics,             \* TransactionManager.metrics
    tmPc,                  \* where the TransactionManager's caller is suspended,
                           \* and the wrapper its pending statement went through
    nextTxnId,             \* the next transactionId
    tmLog,                 \* the last TransactionManager operation and its result,
                           \* the connection id its last getConnection call used,
                           \* and the release() calls made since
    racer,                 \* a beginTransaction call made while another one is
                           \* suspended: its position, its getConnection call,
                           \* its result, its transaction id and the one it
                           \* raced with
    pgEnding,              \* driver pool: end() has been called (pool.ending)
    metricsLoggingInterval,\* ConnectionPoolManager's interval timer is running
    disposal               \* ConnectionPoolManager.dispose(): where the call is
                           \* suspended, the pool.connect() calls the driver
                           \* still serves, the leases tracked when it was
                           \* called, whether a call has completed, the
                           \* outcome of the last call, and nextConnId at the
                           \* completion

vars == <<pgPool, clientObj, connectionTimestamps, timer, metrics, hasErrorListener,
          calls, nextConnId, lease, handler, tm, txMetrics, tmPc, nextTxnId, tmLog,
          racer, pgEnding, metricsLoggingInterval, disposal>>

\* The state as one record, so that a handler is a function from state to state
\* and the calls it makes compose.
World ==
    [pgPool |-> pgPool, clientObj |-> clientObj,
     connectionTimestamps |-> connectionTimestamps, timer |-> timer,
     metrics |-> metrics, calls |-> calls, nextConnId |-> nextConnId,
     lease |-> lease, handler |-> handler, tm |-> tm, txMetrics |-> txMetrics,
     tmPc |-> tmPc, nextTxnId |-> nextTxnId, tmLog |-> tmLog, racer |-> racer,
     pgEnding |-> pgEnding, metricsLoggingInterval |-> metricsLoggingInterval,
     disposal |-> disposal]

\* The step to state next.  The bound variable holds the computed state, so
\* that it is computed once.
Becomes(next) ==
    \E w \in {next} :
    /\ pgPool' = w.pgPool
    /\ clientObj' = w.clientObj
    /\ connectionTimestamps' = w.connectionTimestamps
    /\ timer' = w.timer
    /\ metrics' = w.metrics
    /\ calls' = w.calls
    /\ nextConnId' = w.nextConnId
    /\ lease' = w.lease
    /\ handler' = w.handler
    /\ tm' = w.tm
    /\ txMetrics' = w.txMetrics
    /\ tmPc' = w.tmPc
    /\ nextTxnId' = w.nextTxnId
    /\ tmLog' = w.tmLog
    /\ racer' = w.racer
    /\ pgEnding' = w.pgEnding
    /\ metricsLoggingInterval' = w.metricsLoggingInterval
    /\ disposal' = w.disposal
    /\ UNCHANGED hasErrorListener

Max(a, b) == IF a > b THEN a ELSE b

\* ------------------------------------------------------------ initial state
initializeMetrics ==
    [acquiredConnections |-> 0, releasedConnections |-> 0, failedAcquisitions |-> 0,
     activeLeasedConnections |-> 0, maxConcurrentLeasedConnections |-> 0,
     connectionHistory |-> <<>>,
     poolTotalCount |-> 0, poolIdleCount |-> 0, poolWaitingCount |-> 0]

FreshClient ==
    [connId |-> 0, originalQuery |-> FALSE, originalRelease |-> FALSE,
     release |-> "pg", listeners |-> 0]

\* error is what the slot's last getConnection call threw, if it threw.
FreeCall ==
    [pc |-> "free", id |-> 0, options |-> NoOptions, c |-> 0, via |-> -1,
     error |-> "none"]

\* q is the wrapper the holder's statement in flight went through (-1: none in
\* flight, 0: straight to the driver), thenable whether client.query returned
\* a promise for it, and q2 the same as q for a second statement issued behind
\* the first.  strayTimers counts the pending timers of the lease's wrapper
\* other than the one its variable holds.
NoLease ==
    [client |-> 0, owner |-> "none", done |-> FALSE, q |-> -1, thenable |-> TRUE,
     q2 |-> -1, fate |-> "none", by |-> "none", timedOut |-> FALSE, cancels |-> 0,
     strayTimers |-> 0]

NoHandler == [pc |-> "none", cancelClient |-> 0]

InitTm ==
    [client |-> 0, isTransactionActive |-> FALSE, requestId |-> 0,
     currentTransactionOptions |-> NoOptions, transactionStartTime |-> 0,
     metricsLoggingInterval |-> TRUE]

InitTxMetrics ==
    [totalTransactions |-> 0, activeTransactions |-> 0, completedTransactions |-> 0,
     committedTransactions |-> 0, rolledBackTransactions |-> 0,
     failedTransactions |-> 0, transactionDurations |-> 0,
     transactionHistory |-> <<>>]

\* transactionId and options are the locals of the beginTransaction call.
TmIdle == [at |-> "idle", via |-> -1, transactionId |-> 0, options |-> NoOptions]

InitTmLog == [op |-> "none", result |-> "none", lease |-> 0, releases |-> 0]

NoDisposal ==
    [pc |-> "idle", served |-> {}, leased |-> 0, completed |-> FALSE,
     last |-> "none", connIdAtEnd |-> 0]

NoRacer ==
    [pc |-> TmIdle, call |-> FreeCall, log |-> InitTmLog, txn |-> 0, rivalTxn |-> 0]

Init ==
    /\ pgPool = [c \in Clients |-> "fresh"]
    /\ clientObj = [c \in Clients |-> FreshClient]
    /\ connectionTimestamps = {}
    /\ timer = [i \in ConnIds |-> FALSE]
    /\ metrics = initializeMetrics
    /\ hasErrorListener \in BOOLEAN
    /\ calls = [s \in Slots |-> FreeCall]
    /\ nextConnId = 1
    /\ lease = [i \in ConnIds |-> NoLease]
    /\ handler = [i \in ConnIds |-> NoHandler]
    /\ tm = InitTm
    /\ txMetrics = InitTxMetrics
    /\ tmPc = TmIdle
    /\ nextTxnId = 1
    /\ tmLog = InitTmLog
    /\ racer = NoRacer
    /\ pgEnding = FALSE
    /\ metricsLoggingInterval = TRUE
    /\ disposal = NoDisposal

\* ------------------------------------------------------------ the pg driver
\* A pool that opens a new connection whatever its size.
ConnectableBeyondMax(pg, c) ==
    \/ pg[c] = "idle"
    \/ /\ pg[c] = "fresh"
       /\ \A d \in Clients : d < c => pg[d] # "fresh"

\* pool.connect() can be answered with client c: an idle client first, a new
\* one (the lowest unused object) only while the pool is not full.
Alive(pg) == {c \in Clients : pg[c] \in {"idle", "out"}}

Connectable(pg, c) ==
    \/ pg[c] = "idle"
    \/ /\ pg[c] = "fresh"
       /\ \A d \in Clients : pg[d] # "idle"
       /\ Cardinality(Alive(pg)) < PoolMax
       /\ \A d \in Clients : d < c => pg[d] # "fresh"

\* Only an Error makes the driver destroy the connection.
DiscardsOnlyOnError(arg) == arg = "error"

\* A truthy argument of release() makes the driver destroy the connection.
Discards(arg) == arg \in {"error", "true"}

\* The driver's release of a checked-out client (pg-pool's _release): a pool
\* that is ending keeps no client.
PgRelease(pg, ending, c, arg) ==
    [pg EXCEPT ![c] = IF Discards(arg) \/ ending THEN "removed" ELSE "idle"]

\* The pool.connect() calls of getConnection that are not answered yet.
Pending(w) == {s \in Slots : w.calls[s].pc = "connect"}

\* The pending pool.connect() calls the driver is serving (an idle client is
\* theirs, or a new connection is being opened for them) are as many as the
\* pool has room for; the others wait in its queue.
Served(w, S) ==
    LET out == {c \in Clients : w.pgPool[c] = "out"}
        room == PoolMax - Cardinality(out)
    IN  /\ S \subseteq Pending(w)
        /\ Cardinality(S) = IF Cardinality(Pending(w)) < room
                            THEN Cardinality(Pending(w)) ELSE room

\* pool.end() of the driver, when it is the first one: the pool is ending, the
\* idle clients that no served call has taken are closed, and the calls in the
\* queue are never answered.
PgEnd(w, S) ==
    LET idleBelow(c) == {d \in Clients : w.pgPool[d] = "idle" /\ d < c}
    IN  [w EXCEPT
           !.pgEnding = TRUE,
           !.disposal.served = S,
           !.pgPool = [c \in Clients |->
               IF w.pgPool[c] = "idle" /\ Cardinality(idleBelow(c)) >= Cardinality(S)
               THEN "removed" ELSE w.pgPool[c]]]

\* The promise of pool.end() resolves once the pool has no client left, neither
\* checked out nor being connected.
PgEnded(w) ==
    /\ w.pgEnding
    /\ Alive(w.pgPool) = {}
    /\ w.disposal.served \cap Pending(w) = {}

\* A plain checkout by the driver: it installs its own release() on the client.
PgCheckout(w, c) ==
    [w EXCEPT !.pgPool[c] = "out", !.clientObj[c].release = "pg"]

\* ------------------------------------------------- ConnectionPoolManager
\* addHistory that drops the new entry when the history is full.
addHistoryDropsNewest(m, type, connectionId) ==
    LET pushed == Append(m.connectionHistory,
                         [type |-> type, connectionId |-> connectionId])
    IN  [m EXCEPT !.connectionHistory =
            IF Len(pushed) > MAX_HISTORY_SIZE THEN m.connectionHistory ELSE pushed]

\* addHistory (lines 147-157): push, then shift() when over MAX_HISTORY_SIZE.
addHistory(m, type, connectionId) ==
    LET pushed == Append(m.connectionHistory,
                         [type |-> type, connectionId |-> connectionId])
    IN  [m EXCEPT !.connectionHistory =
            IF Len(pushed) > MAX_HISTORY_SIZE THEN Tail(pushed) ELSE pushed]

\* A tracked release that leaves the active-lease counter alone.
ReleaseActiveNoDecrement(n) == n

\* The timers with the pending timer of connection id left running.
KeepTimer(t, id) == t

\* clearTimeout(connectionDetails.queryTimeoutTimer) (lines 337-340).
ClearTimer(t, id) == [t EXCEPT ![id] = FALSE]

\* The active-lease counter after a tracked release (line 344).
ReleaseActive(n) == Max(0, n - 1)

\* The check of the tracking table (line 320).
Tracked(w, id) == id # 0 /\ id \in w.connectionTimestamps

\* performClientRelease(client, errorIndication, forceDiscardOption).  arg is
\* "error" (an Error given), "true" (forceDiscard) or "none"; actor is
\* the connection id on whose behalf the call is made (not program state: it
\* only labels lease[id].by).
performClientRelease(w, c, arg, actor) ==
    LET id == w.clientObj[c].connId
        w0 == [w EXCEPT !.clientObj[c].originalQuery = FALSE]
    IN  IF ~Tracked(w0, id)
        THEN IF w0.clientObj[c].originalRelease
             THEN [w0 EXCEPT !.pgPool = PgRelease(@, w.pgEnding, c, arg),
                             !.clientObj[c].originalRelease = FALSE]
             ELSE w0
        ELSE LET m1 == [w0.metrics EXCEPT
                           !.releasedConnections = @ + 1,
                           !.activeLeasedConnections = ReleaseActive(@)]
                 m2 == addHistory(m1,
                           IF arg = "error" THEN "client_error_released" ELSE "released",
                           id)
                 w1 == [w0 EXCEPT
                           !.timer = ClearTimer(@, id),
                           !.metrics = m2,
                           !.connectionTimestamps = @ \ {id},
                           !.clientObj[c].connId = 0,
                           !.lease[id].by = IF actor = id THEN "own" ELSE "other"]
             IN  IF w1.clientObj[c].originalRelease
                 THEN [w1 EXCEPT
                         !.pgPool = PgRelease(@, w.pgEnding, c, arg),
                         !.clientObj[c].originalRelease = FALSE,
                         !.lease[id].fate =
                             IF Discards(arg) THEN "discarded" ELSE "recycled"]
                 ELSE w1

\* client.release(arg) as a caller sees it: the property is the manager's
\* wrapper after a managed checkout and the driver's own after a plain one.
\* The driver's release throws when the client is not checked out.
ClientReleaseThrows(w, c) ==
    w.clientObj[c].release = "pg" /\ w.pgPool[c] # "out"

ClientRelease(w, c, arg, actor) ==
    IF w.clientObj[c].release = "wrapper"
    THEN performClientRelease(w, c, arg, actor)
    ELSE IF w.pgPool[c] = "out"
         THEN [w EXCEPT !.pgPool = PgRelease(@, w.pgEnding, c, arg)]
         ELSE w

\* client.query(...): through the wrapper of the current lease (which clears the
\* lease's pending timer and starts a new one) or, when the wrapper has been
\* taken off, straight to the driver.  QueryVia is the wrapper's connection id.
QueryVia(w, c) ==
    IF w.clientObj[c].originalQuery THEN w.clientObj[c].connId ELSE 0

\* if (currentQueryTimeoutTimer) clearTimeout(currentQueryTimeoutTimer)
\* (line 228).
ClearPrevious(t, id) == [t EXCEPT ![id] = FALSE]

\* The wrapper's variable then holds the new timer (lines 241-262): a timer it
\* held before and that is still pending runs on as a stray one.
QueryIssued(w, c) ==
    LET via == QueryVia(w, c)
    IN  IF via = 0 THEN w
        ELSE LET cleared == ClearPrevious(w.timer, via)
             IN  [w EXCEPT !.lease[via].strayTimers =
                               IF cleared[via] THEN @ + 1 ELSE @,
                           !.timer = [cleared EXCEPT ![via] = TRUE]]

\* The query's promise settles: the wrapper's then/catch clears the timer.
QuerySettled(w, via) ==
    IF via > 0 THEN [w EXCEPT !.timer[via] = FALSE] ELSE w

\* ---------------------------------------------------- TransactionManager
\* transactionHistory.push(entry), then the cut to the last 100 entries.
pushHistory(m, entry) ==
    LET pushed == Append(m.transactionHistory, entry)
    IN  [m EXCEPT !.transactionHistory =
            IF Len(pushed) > MAX_TXN_HISTORY
            THEN SubSeq(pushed, Len(pushed) - MAX_TXN_HISTORY + 1, Len(pushed))
            ELSE pushed]

\* new Date(): a clock that never runs backwards, read off the two counters
\* that only grow.  0 stands for null (transactionStartTime) and -1 for a
\* duration that was never set.
Now(w) == w.nextTxnId + w.nextConnId

\* transactionHistory.find(t => t.transactionId === id): the index of the first
\* entry with that id, 0 when there is none.
findHistory(m, id) ==
    LET h == m.transactionHistory
        hits == {i \in 1..Len(h) : h[i].transactionId = id}
    IN  IF hits = {} THEN 0 ELSE CHOOSE i \in hits : \A j \in hits : i <= j

\* historyEntry.startTime.getTime() on an entry pushed with a null startTime
\* throws a TypeError.
DurationThrows(m, id, timed) ==
    /\ timed
    /\ findHistory(m, id) # 0
    /\ m.transactionHistory[findHistory(m, id)].startTime = 0

\* The update of the entry found, if any: its status and endTime, and its
\* duration = endTime - startTime when the caller computes one.
markHistory(m, id, status, now, timed) ==
    LET first == findHistory(m, id)
        e == m.transactionHistory[first]
    IN  IF first = 0 THEN m
        ELSE [m EXCEPT !.transactionHistory[first] =
                 [e EXCEPT !.status = status,
                           !.duration = IF timed /\ e.startTime # 0
                                        THEN now - e.startTime ELSE @]]

\* releaseClient that resets the fields without calling client.release().
releaseClientNoRelease(w) ==
    IF w.tm.client = 0 THEN w
    ELSE [w EXCEPT !.tm.client = 0,
                   !.tm.isTransactionActive = FALSE,
                   !.tm.transactionStartTime = 0,
                   !.txMetrics.activeTransactions = Max(0, @ - 1)]

\* releaseClient(): nothing without a client; otherwise the counter, then
\* client.release(), then the reset of the fields (not reached when release()
\* throws).
ReleaseHeldClient(w) ==
    IF w.tm.client = 0 THEN w
    ELSE LET c == w.tm.client
             w1 == IF w.tm.isTransactionActive
                   THEN [w EXCEPT !.txMetrics.activeTransactions = Max(0, @ - 1)]
                   ELSE w
             w2 == [w1 EXCEPT !.tmLog.releases = @ + 1]
         IN  IF ClientReleaseThrows(w2, c) THEN w2
             ELSE [ClientRelease(w2, c, "none", w2.tmLog.lease) EXCEPT
                     !.tm.client = 0,
                     !.tm.isTransactionActive = FALSE,
                     !.tm.transactionStartTime = 0,
                     !.lease = IF w2.tmLog.lease \in ConnIds
                               THEN [@ EXCEPT ![w2.tmLog.lease].done = TRUE] ELSE @]

\* The call, with the state it is made in computed once.
releaseClient(w) == CHOOSE released \in {ReleaseHeldClient(v) : v \in {w}} : TRUE

\* this.client.query(text), awaited at tmPc.at.
TmAwaitQuery(w, at) ==
    [QueryIssued(w, w.tm.client) EXCEPT
        !.tmPc.at = at, !.tmPc.via = QueryVia(w, w.tm.client)]

TmDone(w, op, result) ==
    [w EXCEPT !.tmPc = TmIdle, !.tmLog.op = op, !.tmLog.result = result]

\* beginTransaction, the catch block (lines 169-188).
BeginCatch(w) ==
    LET counted == [w.txMetrics EXCEPT !.failedTransactions = @ + 1]
        id == w.tmPc.transactionId
        m == markHistory(counted, id, "failed", Now(w), TRUE)
        w1 == [w EXCEPT !.txMetrics = m]
    IN  TmDone(IF DurationThrows(counted, id, TRUE) THEN w1 ELSE releaseClient(w1),
               "begin", "failed")

\* beginTransaction whose history entry leaves out the requested options.
BeginFinishNoOptions(w) ==
    LET m == pushHistory([w.txMetrics EXCEPT !.activeTransactions = @ + 1],
                 [transactionId |-> w.tmPc.transactionId, status |-> "active",
                  isolationLevel |-> NoOptions.isolationLevel,
                  readOnly |-> NoOptions.readOnly,
                  startTime |-> w.tm.transactionStartTime, duration |-> -1])
    IN  TmDone([w EXCEPT !.tm.isTransactionActive = TRUE, !.txMetrics = m],
               "begin", "ok")

\* beginTransaction, lines 154-167: every statement went through.
BeginFinish(w) ==
    LET o == w.tmPc.options
        m == pushHistory([w.txMetrics EXCEPT !.activeTransactions = @ + 1],
                 [transactionId |-> w.tmPc.transactionId, status |-> "active",
                  isolationLevel |-> o.isolationLevel, readOnly |-> o.readOnly,
                  startTime |-> w.tm.transactionStartTime, duration |-> -1])
    IN  TmDone([w EXCEPT !.tm.isTransactionActive = TRUE, !.txMetrics = m],
               "begin", "ok")

\* beginTransaction, lines 146-152: the statements that follow BEGIN.  With
\* this.client reset to null meanwhile (by an overlapping call's releaseClient),
\* this.client.query throws a TypeError into the catch block.
BeginSetup(w, after) ==
    LET o == w.tmPc.options
        next == IF after = "begin_BEGIN" /\ o.isolationLevel # "none"
                THEN "begin_iso"
                ELSE IF after # "begin_ro" /\ o.readOnly # "undefined"
                THEN "begin_ro"
                ELSE "finish"
    IN  IF next = "finish" THEN BeginFinish(w)
        ELSE IF w.tm.client = 0 THEN BeginCatch(w)
        ELSE TmAwaitQuery(w, next)

\* beginTransaction, lines 143-144: getConnection returned client c, BEGIN is
\* issued through it.
BeginGotClient(w, c) ==
    TmAwaitQuery([w EXCEPT !.tm.client = c], "begin_BEGIN")

\* ----------------------------------------- ConnectionPoolManager.getConnection
\* return client (line 287): the handle reaches the caller, or beginTransaction.
GetConnectionReturn(w, s) ==
    LET id == w.calls[s].id
        c == w.calls[s].c
        w1 == [w EXCEPT !.calls[s] = FreeCall]
    IN  IF s = TM THEN BeginGotClient(w1, c)
        ELSE [w1 EXCEPT !.lease[id].owner = "caller"]

\* The setup statements (lines 280-285), each awaited.
GetConnectionSetup(w, s, after) ==
    LET o == w.calls[s].options
        c == w.calls[s].c
        await(pc) == [QueryIssued(w, c) EXCEPT !.calls[s].pc = pc,
                                               !.calls[s].via = QueryVia(w, c)]
    IN  IF after = "connect" /\ o.isolationLevel # "none" THEN await("iso")
        ELSE IF after # "ro" /\ o.readOnly # "undefined" THEN await("ro")
        ELSE GetConnectionReturn(w, s)

\* pool.connect() resolved with client c (lines 175-278), then the setup.
GetConnectionAcquired(w, s, c) ==
    LET id == w.calls[s].id
        m1 == [w.metrics EXCEPT !.acquiredConnections = @ + 1,
                                !.activeLeasedConnections = @ + 1]
        m2 == [m1 EXCEPT !.maxConcurrentLeasedConnections =
                            Max(@, m1.activeLeasedConnections)]
        w1 == [PgCheckout(w, c) EXCEPT
                 !.metrics = addHistory(m2, "acquired", id),
                 !.connectionTimestamps = @ \cup {id},
                 !.clientObj[c] = [connId |-> id, originalQuery |-> TRUE,
                                   originalRelease |-> TRUE, release |-> "wrapper",
                                   listeners |-> @.listeners + 1],
                 !.lease[id] = [NoLease EXCEPT !.client = c, !.fate = "leased"],
                 !.calls[s].c = c]
    IN  GetConnectionSetup(w1, s, "connect")

\* The catch block (lines 289-309): pool.connect() or a setup statement threw.
\* Nothing is released here.  emit('error', error) throws the underlying error
\* itself when the manager has no 'error' listener, and the throw of the
\* DatabaseConnectionError is then not reached.
GetConnectionCatch(w, s) ==
    LET m == addHistory([w.metrics EXCEPT !.failedAcquisitions = @ + 1],
                        "failed_acquire", w.calls[s].id)
        thrown == IF hasErrorListener THEN "DatabaseConnectionError"
                  ELSE "underlying"
        w1 == [w EXCEPT !.metrics = m,
                        !.calls[s] = [FreeCall EXCEPT !.error = thrown]]
    IN  IF s = TM THEN BeginCatch(w1) ELSE w1

\* The driver lets every connect() wait for a client.
ConnectNeverRefused(w) == FALSE

\* pool.connect() (line 174) on a pool whose end() has been called: the driver
\* rejects it at once ("Cannot use a pool after calling end on the pool").
ConnectRefused(w) == w.pgEnding

\* The call up to pool.connect() (lines 159-174); a connect() rejected at once
\* takes the call to its catch block.
GetConnectionStart(w, s, options) ==
    LET w1 == [w EXCEPT !.calls[s] = [pc |-> "connect", id |-> w.nextConnId,
                                      options |-> options, c |-> 0, via |-> -1,
                                      error |-> "none"],
                        !.nextConnId = @ + 1]
    IN  IF ConnectRefused(w) THEN GetConnectionCatch(w1, s) ELSE w1

\* ------------------------------------------------------------------ actions
\* A caller outside the TransactionManager calls getConnection(options).
CallerGetConnection(s, options) ==
    /\ s # TM
    /\ calls[s].pc = "free"
    /\ \A r \in Slots : (r # TM /\ r < s) => calls[r].pc # "free"
    /\ nextConnId <= MaxConn
    /\ Becomes(GetConnectionStart(World, s, options))

\* pool.connect() of a getConnection call resolves with client c.
PoolConnectResolve(s, c) ==
    /\ calls[s].pc = "connect"
    /\ pgEnding => s \in disposal.served
    /\ Connectable(pgPool, c)
    /\ Becomes(GetConnectionAcquired(World, s, c))

\* pool.connect() rejects: the wait timed out, or the new connection failed.
PoolConnectReject(s) ==
    /\ calls[s].pc = "connect"
    /\ \/ \A c \in Clients : pgPool[c] # "idle"
       \/ pgEnding /\ s \notin disposal.served
    /\ Becomes(GetConnectionCatch(World, s))

\* A setup statement of getConnection settles.
SetupQueryOk(s) ==
    /\ calls[s].pc \in {"iso", "ro"}
    /\ Becomes(GetConnectionSetup(QuerySettled(World, calls[s].via), s, calls[s].pc))

SetupQueryFail(s) ==
    /\ calls[s].pc \in {"iso", "ro"}
    /\ Becomes(GetConnectionCatch(QuerySettled(World, calls[s].via), s))

\* The deadline timer of connection id fires (the setTimeout callback, lines
\* 241-261, up to its first await).  emit('error') throws when nobody listens,
\* which ends the callback.  pidKnown: client.processID was set when the query
\* was issued.
TimerFire(id, pidKnown) ==
    /\ timer[id]
    /\ handler[id].pc \notin {"connect", "cancel"}
    /\ LET w0 == [World EXCEPT !.timer[id] = FALSE, !.lease[id].timedOut = TRUE]
       IN  Becomes(
             IF ~hasErrorListener THEN [w0 EXCEPT !.handler[id].pc = "aborted"]
             ELSE IF pidKnown THEN [w0 EXCEPT !.handler[id].pc = "connect"]
             ELSE [performClientRelease(w0, lease[id].client, "error", id)
                      EXCEPT !.handler[id].pc = "done"])

\* The callback's pool.connect() resolves with the cancel client (lines 249-250).
HandlerConnectResolve(id, cc) ==
    /\ handler[id].pc = "connect"
    /\ ~pgEnding
    /\ Connectable(pgPool, cc)
    /\ Becomes([PgCheckout(World, cc) EXCEPT
                  !.handler[id] = [pc |-> "cancel", cancelClient |-> cc],
                  !.lease[id].cancels = @ + 1])

\* The callback's pool.connect() rejects (lines 252-260).
HandlerConnectReject(id) ==
    /\ handler[id].pc = "connect"
    /\ pgEnding \/ \A c \in Clients : pgPool[c] # "idle"
    /\ Becomes([performClientRelease(World, lease[id].client, "error", id)
                  EXCEPT !.handler[id].pc = "done"])

\* pg_cancel_backend settles either way: cancelClient.release(), then the forced
\* release of the timed-out client (lines 254-260).
HandlerCancelSettled(id) ==
    /\ handler[id].pc = "cancel"
    /\ LET cc == handler[id].cancelClient
       IN  Becomes(
             IF ClientReleaseThrows(World, cc)
             THEN [World EXCEPT !.handler[id] = [pc |-> "aborted", cancelClient |-> 0]]
             ELSE [performClientRelease(ClientRelease(World, cc, "none", 0),
                                        lease[id].client, "error", id)
                      EXCEPT !.handler[id] = [pc |-> "done", cancelClient |-> 0]])

\* The driver emits 'error' on a checked-out client: every listener the leases
\* left on it runs (lines 203-215).
RECURSIVE RunErrorListeners(_, _, _)
RunErrorListeners(w, c, n) ==
    IF n = 0 THEN w
    ELSE RunErrorListeners(
             performClientRelease(w, c, "error", w.clientObj[c].connId), c, n - 1)

DriverError(c) ==
    /\ pgPool[c] = "out"
    /\ clientObj[c].listeners > 0
    /\ Becomes(RunErrorListeners(World, c, clientObj[c].listeners))

\* The holder of the handle of connection id issues a query through it.
CallerQuery(id) ==
    /\ lease[id].owner = "caller"
    /\ ~lease[id].done
    /\ lease[id].q = -1
    /\ Becomes([QueryIssued(World, lease[id].client) EXCEPT
                  !.lease[id].q = QueryVia(World, lease[id].client)])

\* The statement in flight completes (the driver answers the statements of a
\* client in the order they were issued).  The wrapper clears its timer in the
\* then/catch of the promise (lines 266-271); for a result that is no promise it
\* waits for the client's 'end' or 'error' event instead (lines 272-275).
CallerQuerySettled(id) ==
    /\ lease[id].q >= 0
    /\ LET w0 == IF lease[id].thenable THEN QuerySettled(World, lease[id].q)
                 ELSE World
       IN  Becomes([w0 EXCEPT !.lease[id].q = lease[id].q2,
                              !.lease[id].q2 = -1,
                              !.lease[id].thenable = TRUE])

\* The holder issues a statement with a callback, or a submittable such as a
\* cursor: client.query returns no promise.
CallerQueryCallback(id) ==
    /\ lease[id].owner = "caller"
    /\ ~lease[id].done
    /\ lease[id].q = -1
    /\ Becomes([QueryIssued(World, lease[id].client) EXCEPT
                  !.lease[id].q = QueryVia(World, lease[id].client),
                  !.lease[id].thenable = FALSE])

\* The holder issues a second statement before the first has completed.
CallerQueryAgain(id) ==
    /\ lease[id].owner = "caller"
    /\ ~lease[id].done
    /\ lease[id].q >= 0
    /\ lease[id].thenable
    /\ lease[id].q2 = -1
    /\ Becomes([QueryIssued(World, lease[id].client) EXCEPT
                  !.lease[id].q2 = QueryVia(World, lease[id].client)])

\* The holder of the handle of connection id releases it, the first time or
\* again: client.release(arg) or releaseConnection(client, arg).  A holder
\* awaits its own query before it releases.
CallerRelease(id, api, arg) ==
    /\ lease[id].owner = "caller"
    /\ lease[id].q = -1
    /\ LET c == lease[id].client
           w0 == [World EXCEPT !.lease[id].done = TRUE]
       IN  Becomes(
             IF api = "releaseConnection" THEN performClientRelease(w0, c, arg, id)
             ELSE IF ClientReleaseThrows(w0, c) THEN w0
             ELSE ClientRelease(w0, c, arg, id))

\* beginTransaction(options), up to its first await (lines 114-143).
BeginStart(w, options) ==
    LET id == w.nextTxnId
        w0 == [w EXCEPT !.tm.requestId = id,
                        !.tm.currentTransactionOptions = options,
                        !.nextTxnId = @ + 1]
    IN  IF w.tm.isTransactionActive
        THEN LET m == pushHistory(
                        [w0.txMetrics EXCEPT !.failedTransactions = @ + 1],
                        [transactionId |-> id, status |-> "failed",
                         isolationLevel |-> options.isolationLevel,
                         readOnly |-> options.readOnly,
                         startTime |-> Now(w0), duration |-> -1])
             IN  TmDone([w0 EXCEPT !.txMetrics = m], "begin", "already_active")
        ELSE GetConnectionStart(
                 [w0 EXCEPT !.tm.transactionStartTime = Now(w0),
                            !.txMetrics.totalTransactions = @ + 1,
                            !.tmPc = [at |-> "begin_connect", via |-> -1,
                                      transactionId |-> id, options |-> options],
                            !.tmLog = [op |-> "begin", result |-> "pending",
                                       lease |-> w.nextConnId, releases |-> 0]],
                 TM, options)

BeginTransaction(options) ==
    /\ tmPc.at = "idle"
    /\ nextTxnId <= MaxTxn
    /\ tm.isTransactionActive \/ nextConnId <= MaxConn
    /\ Becomes(BeginStart(World, options))

HistoryHas(m, id) ==
    \E i \in 1..Len(m.transactionHistory) : m.transactionHistory[i].transactionId = id

\* commit without the finally block: a failed COMMIT keeps the handle.
CommitSettledNoFinally(w, ok) ==
    LET id == w.tm.requestId
        counted == IF ok THEN [w.txMetrics EXCEPT !.committedTransactions = @ + 1,
                                                  !.completedTransactions = @ + 1]
                   ELSE w.txMetrics
        timed == w.tm.transactionStartTime # 0
        marked == markHistory(counted, id, IF ok THEN "committed" ELSE "failed",
                              Now(w), timed)
        w1 == IF ok THEN releaseClient([w EXCEPT !.txMetrics = marked])
              ELSE [w EXCEPT !.txMetrics = marked]
    IN  TmDone(w1, "commit", IF ok THEN "ok" ELSE "failed")

\* What follows the statement in commit (lines 201-232) and rollback (243-270).
CommitSettled(w, ok) ==
    LET id == w.tm.requestId
        counted == IF ok THEN [w.txMetrics EXCEPT !.committedTransactions = @ + 1,
                                                  !.completedTransactions = @ + 1]
                   ELSE w.txMetrics
        timed == w.tm.transactionStartTime # 0
        threw == DurationThrows(counted, id, timed)
        marked == markHistory(counted, id,
                              IF ok /\ ~threw THEN "committed" ELSE "failed",
                              Now(w), timed)
        m == IF ok /\ HistoryHas(counted, id) /\ timed /\ ~threw
             THEN [marked EXCEPT !.transactionDurations =
                      IF @ + 1 > MAX_DURATIONS THEN MAX_DURATIONS ELSE @ + 1]
             ELSE marked
        w1 == releaseClient([w EXCEPT !.txMetrics = m])
    IN  TmDone(w1, "commit", IF w1.tm.client # 0 THEN "release_threw"
                             ELSE IF ok /\ ~threw THEN "ok" ELSE "failed")

\* rollback that counts the rollback but not the completion.
RollbackSettledNotCompleted(w, ok) ==
    LET id == w.tm.requestId
        counted == IF ok THEN [w.txMetrics EXCEPT !.rolledBackTransactions = @ + 1]
                   ELSE w.txMetrics
        timed == w.tm.transactionStartTime # 0
        marked == markHistory(counted, id, IF ok THEN "rolled_back" ELSE "failed",
                              Now(w), timed)
        w1 == releaseClient([w EXCEPT !.txMetrics = marked])
    IN  TmDone(w1, "rollback", IF ok THEN "ok" ELSE "failed")

RollbackSettled(w, ok) ==
    LET id == w.tm.requestId
        counted == IF ok THEN [w.txMetrics EXCEPT !.rolledBackTransactions = @ + 1,
                                                  !.completedTransactions = @ + 1]
                   ELSE w.txMetrics
        timed == w.tm.transactionStartTime # 0
        threw == DurationThrows(counted, id, timed)
        marked == markHistory(counted, id,
                              IF ok /\ ~threw THEN "rolled_back" ELSE "failed",
                              Now(w), timed)
        m == IF ok /\ HistoryHas(counted, id) /\ timed /\ ~threw
             THEN [marked EXCEPT !.transactionDurations = @ + 1]
             ELSE marked
        w1 == releaseClient([w EXCEPT !.txMetrics = m])
    IN  TmDone(w1, "rollback", IF w1.tm.client # 0 THEN "release_threw"
                               ELSE IF ok /\ ~threw THEN "ok" ELSE "failed")

\* The manager holds no active transaction (the check of lines 192 and 236).
TmNotActive == ~tm.isTransactionActive \/ tm.client = 0

\* commit that returns silently when no transaction is active.
CommitIdleReturns ==
    /\ tmPc.at = "idle"
    /\ IF TmNotActive
       THEN Becomes(TmDone(World, "commit", "noop"))
       ELSE Becomes(TmAwaitQuery(World, "commit"))

\* commit(), up to its await (lines 191-199).
Commit ==
    /\ tmPc.at = "idle"
    /\ IF ~tm.isTransactionActive \/ tm.client = 0
       THEN /\ txMetrics.failedTransactions < MaxFailed
            /\ Becomes(TmDone([World EXCEPT !.txMetrics.failedTransactions = @ + 1],
                              "commit", "no_active"))
       ELSE Becomes(TmAwaitQuery(World, "commit"))

\* rollback that counts a failure when no transaction is active.
RollbackIdleCountsFailure ==
    /\ tmPc.at = "idle"
    /\ IF TmNotActive
       THEN /\ txMetrics.failedTransactions < MaxFailed
            /\ Becomes(TmDone([World EXCEPT !.txMetrics.failedTransactions = @ + 1],
                              "rollback", "noop"))
       ELSE Becomes(TmAwaitQuery(World, "rollback"))

\* rollback(), up to its await (lines 235-241).
Rollback ==
    /\ tmPc.at = "idle"
    /\ IF ~tm.isTransactionActive \/ tm.client = 0
       THEN Becomes(TmDone(World, "rollback", "noop"))
       ELSE Becomes(TmAwaitQuery(World, "rollback"))

\* getClient that only checks that a client is held.
getClientNoActiveCheck(w) ==
    IF w.tm.client = 0 THEN [threw |-> TRUE, client |-> 0]
    ELSE [threw |-> FALSE, client |-> w.tm.client]

\* getClient() (lines 273-278): the client, or the throw of 'No active
\* transaction client'.
getClient(w) ==
    IF w.tm.client = 0 \/ ~w.tm.isTransactionActive
    THEN [threw |-> TRUE, client |-> 0]
    ELSE [threw |-> FALSE, client |-> w.tm.client]

\* The caller issues a statement through getClient() (lines 273-278).
TmQuery ==
    /\ tmPc.at = "idle"
    /\ ~getClient(World).threw
    /\ Becomes(TmAwaitQuery(World, "query"))

\* The statement the TransactionManager's caller awaits settles.
TmQuerySettled(ok) ==
    /\ tmPc.at \notin {"idle", "begin_connect"}
    /\ \E w0 \in {QuerySettled(World, tmPc.via)} :
       LET at == tmPc.at
       IN  Becomes(
             IF at = "commit" THEN CommitSettled(w0, ok)
             ELSE IF at = "rollback" THEN RollbackSettled(w0, ok)
             ELSE IF at = "query"
                  THEN TmDone(w0, "query", IF ok THEN "ok" ELSE "failed")
             ELSE IF ok THEN BeginSetup(w0, at)
             ELSE BeginCatch(w0))

\* ------------------------------------------------- dispose and the monitors
Min(a, b) == IF a < b THEN a ELSE b

\* A sampling that also sets the active-lease counter from the driver's
\* count of checked-out clients.
updatePoolStatsMetricsCounting(w) ==
    [w EXCEPT !.metrics.poolTotalCount =
                  Cardinality({c \in Clients : w.pgPool[c] \in {"out", "idle"}}),
              !.metrics.activeLeasedConnections =
                  Cardinality({c \in Clients : w.pgPool[c] = "idle"})]

\* updatePoolStatsMetrics (lines 390-394).  The driver's counts: a pending
\* connect() has taken an idle client if there is one, has a connection being
\* opened for it (which counts in totalCount) if the pool has room, and waits
\* in the queue otherwise.
updatePoolStatsMetrics(w) ==
    LET out == Cardinality({c \in Clients : w.pgPool[c] = "out"})
        idle == Cardinality({c \in Clients : w.pgPool[c] = "idle"})
        pending == IF w.pgEnding THEN Cardinality(w.disposal.served \cap Pending(w))
                   ELSE Cardinality(Pending(w))
        taken == Min(idle, pending)
        connecting == Min(pending - taken, Max(0, PoolMax - out - idle))
    IN  [w EXCEPT !.metrics.poolTotalCount = out + idle + connecting,
                  !.metrics.poolIdleCount = idle - taken,
                  !.metrics.poolWaitingCount =
                      IF w.pgEnding THEN 0 ELSE pending - taken - connecting]

\* The interval callback of startMetricsLogging (lines 397-425): it samples
\* the pool's counts; the rest of it logs.
MetricsTick ==
    /\ metricsLoggingInterval
    /\ Becomes(updatePoolStatsMetrics(World))

\* The interval callback of TransactionManager.startMetricsLogging (lines
\* 86-107) only logs.
TmMetricsTick ==
    /\ tm.metricsLoggingInterval
    /\ UNCHANGED vars

\* transactionHistory.filter(t => t.status === 'active') (line 314).
ActiveOnly(entry) == entry.status = "active"

\* A reset that zeroes the active counter with the others.
resetTxMetricsAll(m) ==
    [InitTxMetrics EXCEPT
        !.transactionHistory = SelectSeq(m.transactionHistory, ActiveOnly)]

\* TransactionManager.resetMetrics() (lines 305-316): every counter but
\* activeTransactions is zeroed, and the history keeps its active entries.
resetTxMetrics(m) ==
    [InitTxMetrics EXCEPT
        !.activeTransactions = m.activeTransactions,
        !.transactionHistory = SelectSeq(m.transactionHistory, ActiveOnly)]

\* The application calls TransactionManager.resetMetrics() between two calls
\* of the manager; a call that finds the metrics as a reset leaves them is not
\* taken.
TmResetMetrics ==
    /\ tmPc.at = "idle"
    /\ txMetrics # resetTxMetrics(txMetrics)
    /\ Becomes([World EXCEPT !.txMetrics = resetTxMetrics(txMetrics)])

\* The interval keeps running.
KeepInterval(running) == running

\* clearInterval(this.metricsLoggingInterval) (lines 437-439): the interval
\* no longer runs.
ClearInterval(running) == FALSE

\* dispose() up to its await (lines 431-440).  The driver rejects a second
\* end() of the same pool ("Called end on pool more than once"), and the
\* rejection leaves dispose() at line 440.
DisposeStart(w, S) ==
    LET w0 == [w EXCEPT !.metricsLoggingInterval = ClearInterval(@)]
    IN  IF w0.pgEnding
        THEN [w0 EXCEPT !.disposal.last = "threw"]
        ELSE [PgEnd(w0, S) EXCEPT
                !.disposal.pc = "end",
                !.disposal.leased = Cardinality(w.connectionTimestamps)]

\* dispose() after pool.end() has resolved (lines 441-447).
DisposeEnd(w) ==
    [w EXCEPT !.metrics.activeLeasedConnections = 0,
              !.connectionTimestamps = {},
              !.disposal.pc = "idle",
              !.disposal.completed = TRUE,
              !.disposal.last = "ok",
              !.disposal.connIdAtEnd = w.nextConnId]

\* A reset that does not carry the high-water mark over.
resetMetricsAll(w) == [w EXCEPT !.metrics = initializeMetrics]

\* ConnectionPoolManager.resetMetrics() (lines 474-483).
resetMetrics(w) ==
    [w EXCEPT !.metrics =
        [initializeMetrics EXCEPT !.maxConcurrentLeasedConnections =
            w.metrics.maxConcurrentLeasedConnections]]

\* The application calls ConnectionPoolManager.resetMetrics(); a call that
\* finds the metrics as a reset leaves them is not taken.
ResetMetrics ==
    /\ metrics # resetMetrics(World).metrics
    /\ Becomes(resetMetrics(World))

\* The application calls ConnectionPoolManager.dispose().
Dispose ==
    \E S \in SUBSET Slots :
        /\ Served(World, S)
        /\ Becomes(DisposeStart(World, S))

\* pool.end() resolves.
PoolEndResolve ==
    /\ disposal.pc = "end"
    /\ PgEnded(World)
    /\ Becomes(DisposeEnd(World))

\* dispose() that also gives the held handle back.
DisposeTmReleasing(w) ==
    releaseClient([w EXCEPT !.tm.metricsLoggingInterval = FALSE])

\* TransactionManager.dispose(), the body of its if (lines 357-358).
DisposeTm(w) == [w EXCEPT !.tm.metricsLoggingInterval = FALSE]

\* TransactionManager.dispose() (lines 355-360).
TmDispose ==
    \/ /\ tm.metricsLoggingInterval
       /\ Becomes(DisposeTm(World))
    \/ /\ ~tm.metricsLoggingInterval
       /\ UNCHANGED vars

\* ------------------------------------------- a second beginTransaction call
\* The state as the racing call sees it: its own position, getConnection call
\* and result in the place of the first call's; the fields of the manager and
\* of the pool are shared.
Swap(w) ==
    [w EXCEPT !.tmPc = w.racer.pc,
              !.calls[TM] = w.racer.call,
              !.tmLog = w.racer.log,
              !.racer = [@ EXCEPT !.pc = w.tmPc, !.call = w.calls[TM],
                                  !.log = w.tmLog]]

BeginStages == {"begin_connect", "begin_BEGIN", "begin_iso", "begin_ro"}

\* beginTransaction(options) is called while a beginTransaction call is
\* suspended at one of its awaits (lines 143-152).
RacerBeginTransaction(options) ==
    /\ tmPc.at \in BeginStages
    /\ racer = NoRacer
    /\ nextTxnId <= MaxTxn
    /\ tm.isTransactionActive \/ nextConnId <= MaxConn
    /\ Becomes(Swap(BeginStart(
          Swap([World EXCEPT !.racer.rivalTxn = tmPc.transactionId,
                             !.racer.txn = nextTxnId]), options)))

\* pool.connect() of the racing call's getConnection resolves with client c.
RacerConnectResolve(c) ==
    /\ racer.call.pc = "connect"
    /\ ~pgEnding
    /\ Connectable(pgPool, c)
    /\ Becomes(Swap(GetConnectionAcquired(Swap(World), TM, c)))

RacerConnectReject ==
    /\ racer.call.pc = "connect"
    /\ pgEnding \/ \A c \in Clients : pgPool[c] # "idle"
    /\ Becomes(Swap(GetConnectionCatch(Swap(World), TM)))

\* The statement the racing call awaits settles.
RacerQuerySettled(ok) ==
    /\ racer.pc.at \in BeginStages \ {"begin_connect"}
    /\ \E w0 \in {QuerySettled(Swap(World), racer.pc.via)} :
          Becomes(Swap(IF ok THEN BeginSetup(w0, racer.pc.at) ELSE BeginCatch(w0)))

\* ------------------------------------------------------------ specifications
\* release() without argument, with an Error, with true (false and undefined
\* take the same branches as no argument).
ReleaseArgs == {"none", "error", "true"}

PoolInternal ==
    \/ \E s \in Slots, c \in Clients : PoolConnectResolve(s, c)
    \/ \E s \in Slots : PoolConnectReject(s)
    \/ \E id \in ConnIds, pidKnown \in BOOLEAN : TimerFire(id, pidKnown)
    \/ \E id \in ConnIds, cc \in Clients : HandlerConnectResolve(id, cc)
    \/ \E id \in ConnIds : HandlerConnectReject(id)
    \/ \E id \in ConnIds : HandlerCancelSettled(id)
    \/ \E c \in Clients : DriverError(c)

CallerNext ==
    \/ \E s \in Slots, o \in CallerOptions : CallerGetConnection(s, o)
    \/ \E id \in ConnIds : CallerQuery(id)
    \/ \E id \in ConnIds : CallerQuerySettled(id)
    \/ \E id \in ConnIds, api \in {"release", "releaseConnection"}, arg \in ReleaseArgs :
          CallerRelease(id, api, arg)

TmNext ==
    \/ \E s \in Slots : SetupQueryOk(s)
    \/ \E s \in Slots : SetupQueryFail(s)
    \/ \E o \in OptionChoices : BeginTransaction(o)
    \/ Commit
    \/ Rollback
    \/ TmQuery
    \/ \E ok \in BOOLEAN : TmQuerySettled(ok)

\* The lease manager used by callers that hold handles directly.
PoolNext == PoolInternal \/ CallerNext

\* The lease manager used through one TransactionManager.
TxnNext == PoolInternal \/ TmNext

Next == PoolInternal \/ CallerNext \/ TmNext

PoolSpec == Init /\ [][PoolNext]_vars
TxnSpec == Init /\ [][TxnNext]_vars

\* One TransactionManager from construction to its disposal.
TxnLifeNext == TxnNext \/ TmDispose \/ TmMetricsTick
TxnLifeSpec == Init /\ [][TxnLifeNext]_vars

\* ------------------------------------------------ managers with a long past
\* The number of transactions a manager has committed, one after the other,
\* before the run that is explored: none, one short of the transaction
\* history's cap, one short of the duration window's cap.
PastRuns == {0, MAX_TXN_HISTORY - 1, MAX_DURATIONS - 1}

\* The k-th past transaction and its lease carry identifiers outside the
\* ranges that the explored run draws from.
PastId(k) == 0 - k

\* addHistory after n transactions: 'acquired' and 'released' of each lease,
\* the last MAX_HISTORY_SIZE of them.
PastConnectionEntry(j) ==
    [type |-> IF j % 2 = 1 THEN "acquired" ELSE "released",
     connectionId |-> PastId((j + 1) \div 2)]

PastConnectionHistory(n) ==
    LET kept == Min(2 * n, MAX_HISTORY_SIZE)
    IN  [i \in 1..kept |-> PastConnectionEntry(i + 2 * n - kept)]

\* transactionHistory after n committed transactions: the last
\* MAX_TXN_HISTORY entries.
PastTransactionEntry(k) ==
    [transactionId |-> PastId(k), status |-> "committed",
     isolationLevel |-> NoOptions.isolationLevel, readOnly |-> NoOptions.readOnly,
     startTime |-> 1, duration |-> 1]

PastTransactionHistory(n) ==
    LET kept == Min(n, MAX_TXN_HISTORY)
    IN  [i \in 1..kept |-> PastTransactionEntry(i + n - kept)]

\* The managers at rest after n committed transactions on one connection:
\* the client is back in the pool with n 'error' listeners and the release
\* wrapper of its last lease, and the counters have counted n of each.
HistoryInit ==
    \E n \in PastRuns :
    /\ pgPool = [c \in Clients |-> IF n > 0 /\ c = 1 THEN "idle" ELSE "fresh"]
    /\ clientObj = [c \in Clients |->
                       IF n > 0 /\ c = 1
                       THEN [FreshClient EXCEPT !.release = "wrapper", !.listeners = n]
                       ELSE FreshClient]
    /\ connectionTimestamps = {}
    /\ timer = [i \in ConnIds |-> FALSE]
    /\ metrics = [initializeMetrics EXCEPT
                     !.acquiredConnections = n,
                     !.releasedConnections = n,
                     !.maxConcurrentLeasedConnections = Min(n, 1),
                     !.connectionHistory = PastConnectionHistory(n)]
    /\ hasErrorListener \in BOOLEAN
    /\ calls = [s \in Slots |-> FreeCall]
    /\ nextConnId = 1
    /\ lease = [i \in ConnIds |-> NoLease]
    /\ handler = [i \in ConnIds |-> NoHandler]
    /\ tm = [InitTm EXCEPT !.requestId = PastId(n)]
    /\ txMetrics = [InitTxMetrics EXCEPT
                       !.totalTransactions = n,
                       !.completedTransactions = n,
                       !.committedTransactions = n,
                       !.transactionDurations = Min(n, MAX_DURATIONS),
                       !.transactionHistory = PastTransactionHistory(n)]
    /\ tmPc = TmIdle
    /\ nextTxnId = 1
    /\ tmLog = IF n = 0 THEN InitTmLog
               ELSE [op |-> "commit", result |-> "ok", lease |-> PastId(n),
                     releases |-> 1]
    /\ racer = NoRacer
    /\ pgEnding = FALSE
    /\ metricsLoggingInterval = TRUE
    /\ disposal = NoDisposal

\* The transaction manager's calls on such managers: no statement runs past
\* its deadline and the driver reports no error.
HistoryNext ==
    \/ \E s \in Slots, c \in Clients : PoolConnectResolve(s, c)
    \/ \E s \in Slots : PoolConnectReject(s)
    \/ \E s \in Slots : SetupQueryOk(s)
    \/ \E s \in Slots : SetupQueryFail(s)
    \/ \E o \in OptionChoices : BeginTransaction(o)
    \/ Commit
    \/ Rollback
    \/ \E ok \in BOOLEAN : TmQuerySettled(ok)

HistorySpec == HistoryInit /\ [][HistoryNext]_vars

\* One TransactionManager whose metrics are reset between its calls.
TxnResetNext == TxnNext \/ TmResetMetrics

TxnResetSpec == Init /\ [][TxnResetNext]_vars

\* The transaction manager's calls with the periodic monitors of both
\* managers running.
MonitorNext == HistoryNext \/ MetricsTick \/ TmMetricsTick
MonitorSpec == Init /\ [][MonitorNext]_vars
Spec == Init /\ [][Next]_vars

DisposeNext ==
    \/ Dispose
    \/ PoolEndResolve
    \/ MetricsTick
    \/ TmDispose
    \/ TmMetricsTick

\* The managers from construction to disposal, with callers that acquire and
\* release handles and issue no statement through them.
LifeNext ==
    \/ \E s \in Slots, o \in CallerOptions : CallerGetConnection(s, o)
    \/ \E s \in Slots, c \in Clients : PoolConnectResolve(s, c)
    \/ \E s \in Slots : PoolConnectReject(s)
    \/ \E id \in ConnIds, api \in {"release", "releaseConnection"}, arg \in ReleaseArgs :
          CallerRelease(id, api, arg)
    \/ \E c \in Clients : DriverError(c)
    \/ DisposeNext

LifeSpec == Init /\ [][LifeNext]_vars

\* The lease manager used by direct callers that issue statements, with its
\* metrics reset and the manager disposed at any time.  The backend process id
\* of a connection is not known here, so that a timeout callback releases the
\* handle without a cancellation.
ResetNext ==
    \/ \E s \in Slots, o \in CallerOptions : CallerGetConnection(s, o)
    \/ \E s \in Slots, c \in Clients : PoolConnectResolve(s, c)
    \/ \E s \in Slots : PoolConnectReject(s)
    \/ \E id \in ConnIds : CallerQuery(id)
    \/ \E id \in ConnIds : CallerQuerySettled(id)
    \/ \E id \in ConnIds, api \in {"release", "releaseConnection"}, arg \in ReleaseArgs :
          CallerRelease(id, api, arg)
    \/ \E id \in ConnIds : TimerFire(id, FALSE)
    \/ \E c \in Clients : DriverError(c)
    \/ ResetMetrics
    \/ Dispose
    \/ PoolEndResolve

ResetSpec == Init /\ [][ResetNext]_vars

\* The lease manager used by direct callers that also issue statements with
\* callbacks and statements behind one another.
QueryNext ==
    \/ PoolNext
    \/ \E id \in ConnIds : CallerQueryCallback(id)
    \/ \E id \in ConnIds : CallerQueryAgain(id)

QuerySpec == Init /\ [][QueryNext]_vars

\* What the racing call passes.
RacerOptions == {NoOptions}

RacerNext ==
    \/ \E o \in RacerOptions : RacerBeginTransaction(o)
    \/ \E c \in Clients : RacerConnectResolve(c)
    \/ RacerConnectReject
    \/ \E ok \in BOOLEAN : RacerQuerySettled(ok)

\* One TransactionManager whose caller does not await beginTransaction before
\* it calls it again.
RaceNext == TxnNext \/ RacerNext

RaceSpec == Init /\ [][RaceNext]_vars

\* Fairness for the temporal claims: a statement the TransactionManager awaits
\* settles (the driver answers or fails), and the caller of an active
\* transaction ends it with commit or rollback.
TxnFairSpec ==
    /\ TxnSpec
    /\ WF_vars(\E ok \in BOOLEAN : TmQuerySettled(ok))
    /\ SF_vars((Commit \/ Rollback) /\ tm.isTransactionActive)

\* Fairness of the driver pool: a pending connect() is answered with a client
\* that has become idle (the driver hands a released client to the first
\* waiter in its queue).
PoolFairSpec ==
    /\ PoolSpec
    /\ SF_vars(\E s \in Slots, c \in Clients : PoolConnectResolve(s, c))

\* Fairness of the timeout callback: its pool.connect() settles, with a client
\* or with the rejection that the finite connectionTimeoutMillis (lines 61-67)
\* brings, and its cancellation query settles.
TimeoutFairSpec ==
    /\ PoolSpec
    /\ \A id \in ConnIds :
          /\ WF_vars(HandlerConnectReject(id)
                       \/ \E cc \in Clients : HandlerConnectResolve(id, cc))
          /\ WF_vars(HandlerCancelSettled(id))

\* ------------------------------------------------------------------- claims
TmAtRest == tmPc.at = "idle"

HistoryEntries(id) ==
    {i \in 1..Len(txMetrics.transactionHistory) :
        txMetrics.transactionHistory[i].transactionId = id}

\* C1: in every reachable state of the lease manager under getConnection and
\* release calls (with query timeouts and driver errors), the
\* activeLeasedConnections counter is at least 0 and at most the pool maximum.
C1_ActiveWithinPool ==
    /\ metrics.activeLeasedConnections >= 0
    /\ metrics.activeLeasedConnections <= PoolMax

\* C1 witness: the pool is fully leased again after a release has been counted.
C1_Witness ==
    /\ metrics.activeLeasedConnections = PoolMax
    /\ metrics.releasedConnections >= 1
    /\ metrics.acquiredConnections >= 2

\* C2: a beginTransaction that succeeded is eventually followed by exactly one
\* release() call for the handle it acquired, after which the lease is no longer
\* tracked; the TransactionManager never calls release() twice for one begin.
TmReleased ==
    /\ tm.client = 0
    /\ tmLog.releases = 1
    /\ tmLog.lease \notin connectionTimestamps

C2_BeginEventuallyReleased ==
    /\ [](tmLog.releases <= 1)
    /\ (tm.isTransactionActive ~> TmReleased)

\* C2 witness: a COMMIT failed and the handle of the transaction has been released.
C2_Witness ==
    /\ TmAtRest /\ tmLog.op = "commit" /\ tmLog.result = "failed"
    /\ TmReleased
    /\ lease[tmLog.lease].fate # "none"

\* C3: a physical connection has at most one holder: among the handles handed to
\* callers on one client, at most one belongs to a caller that has neither called
\* release on it nor had it force-released by its own timeout or driver error.
Holding(id) ==
    /\ lease[id].owner = "caller"
    /\ ~lease[id].done
    /\ lease[id].by # "own"

C3_OneHolderPerClient ==
    \A c \in Clients :
        Cardinality({id \in ConnIds : lease[id].client = c /\ Holding(id)}) <= 1

\* C4: a beginTransaction on an active manager fails and leaves the active
\* transaction's state (handle, active flag, current transaction identifier,
\* options) as it was.
C4_SecondBeginLeavesFirst ==
    [][(tm.isTransactionActive /\ tmLog'.op = "begin"
            /\ tmLog'.result = "already_active" /\ nextTxnId' # nextTxnId)
        => tm' = tm]_vars

\* C5: when a beginTransaction has failed, the manager is idle and holds no
\* client, and the lease manager does not track the connection id that the
\* begin's getConnection call used.
BeginFailed == TmAtRest /\ tmLog.op = "begin" /\ tmLog.result = "failed"

C5_FailedBeginLeaksNothing ==
    BeginFailed =>
        /\ ~tm.isTransactionActive
        /\ tm.client = 0
        /\ tmLog.lease \notin connectionTimestamps

\* C6: when a beginTransaction has failed in acquisition or in a setup statement,
\* the transaction history holds an entry of that transaction with status failed.
C6_FailedBeginInHistory ==
    BeginFailed =>
        \E i \in HistoryEntries(tm.requestId) :
            txMetrics.transactionHistory[i].status = "failed"

\* C7: after commit() or rollback() on an active manager, whether the statement
\* succeeded or threw, release() has been called exactly once for the held
\* handle, its lease is no longer tracked, and the manager is idle.
EndedTransaction ==
    /\ TmAtRest
    /\ tmLog.op \in {"commit", "rollback"}
    /\ tmLog.result \notin {"no_active", "noop"}

C7_CommitRollbackRelease ==
    EndedTransaction =>
        /\ ~tm.isTransactionActive
        /\ tm.client = 0
        /\ tmLog.releases = 1
        /\ tmLog.lease \notin connectionTimestamps

\* C7 witness: a ROLLBACK threw and the manager is idle with the lease released.
C7_Witness ==
    /\ EndedTransaction /\ tmLog.op = "rollback" /\ tmLog.result = "failed"
    /\ ~tm.isTransactionActive
    /\ lease[tmLog.lease].fate \in {"recycled", "discarded"}

\* C8: with a listener on the manager's 'error' event, a handle whose deadline
\* timer fired is never returned to the idle pool, sees at most one cancellation
\* attempt, and once its timeout callback is through, the history holds a
\* client_error_released entry for it.
ErrorReleased(id) ==
    \E i \in 1..Len(metrics.connectionHistory) :
        metrics.connectionHistory[i] =
            [type |-> "client_error_released", connectionId |-> id]

C8_TimedOutHandleDiscarded ==
    \A id \in ConnIds :
        (hasErrorListener /\ lease[id].timedOut) =>
            /\ lease[id].fate # "recycled"
            /\ lease[id].cancels <= 1
            /\ handler[id].pc = "done" => ErrorReleased(id)

\* C9: a release call on a handle whose lease is no longer tracked changes no
\* counter of the metrics and removes nothing from the tracking table.
C9_StaleReleaseIsNoOp ==
    [][\A id \in ConnIds :
          (id \notin connectionTimestamps
             /\ \E api \in {"release", "releaseConnection"}, arg \in ReleaseArgs :
                   CallerRelease(id, api, arg))
          => (metrics' = metrics /\ connectionTimestamps' = connectionTimestamps)]_vars

\* C10 as claimed: between operations, committed + rolled back + failed equals
\* completed.
C10_FailedCountedAsCompleted ==
    TmAtRest =>
        txMetrics.committedTransactions + txMetrics.rolledBackTransactions
            + txMetrics.failedTransactions = txMetrics.completedTransactions

\* C10 as amended: between operations, committed + rolled back equals completed
\* (failed transactions are counted apart and never as completed).
C10_CompletedIsCommittedPlusRolledBack ==
    TmAtRest =>
        txMetrics.committedTransactions + txMetrics.rolledBackTransactions
            = txMetrics.completedTransactions

\* C10 witness: a commit, a rollback and a failure have all been counted.
C10_Witness ==
    /\ TmAtRest
    /\ txMetrics.committedTransactions >= 1
    /\ txMetrics.rolledBackTransactions >= 1
    /\ txMetrics.failedTransactions >= 1

\* C11: whenever the TransactionManager is active, the handle of its transaction
\* is still a tracked lease of the lease manager.
C11_ActiveHandleTracked ==
    (tm.isTransactionActive /\ tm.client # 0) =>
        /\ tmLog.lease \in connectionTimestamps
        /\ clientObj[tm.client].connId = tmLog.lease

\* C13: rollback() on a manager without active transaction returns without
\* error, awaits no statement, releases nothing and changes neither the metrics
\* nor the transaction history.
C13_IdleRollbackIsNoOp ==
    [][(TmNotActive /\ Rollback) =>
          /\ tmLog'.op = "rollback" /\ tmLog'.result = "noop"
          /\ tmLog'.releases = tmLog.releases
          /\ tmPc' = tmPc
          /\ txMetrics' = txMetrics
          /\ tm' = tm
          /\ timer' = timer
          /\ pgPool' = pgPool
          /\ metrics' = metrics
          /\ connectionTimestamps' = connectionTimestamps]_vars

\* C13 witness: rollback() returned as a no-op on a manager that has run a
\* transaction before.
C13_Witness ==
    /\ TmAtRest /\ tmLog.op = "rollback" /\ tmLog.result = "noop"
    /\ txMetrics.totalTransactions >= 1
    /\ ~tm.isTransactionActive

\* C14: commit() on a manager without active transaction throws the
\* no-active-transaction error, awaits no statement, releases nothing and leaves
\* the manager idle.
C14_IdleCommitFails ==
    [][(TmNotActive /\ Commit) =>
          /\ tmLog'.op = "commit" /\ tmLog'.result = "no_active"
          /\ tmLog'.releases = tmLog.releases
          /\ tmPc' = tmPc
          /\ tm' = tm
          /\ timer' = timer
          /\ pgPool' = pgPool
          /\ metrics' = metrics
          /\ connectionTimestamps' = connectionTimestamps]_vars

\* C14 witness: commit() failed with no active transaction right after a commit.
C14_Witness ==
    /\ TmAtRest /\ tmLog.op = "commit" /\ tmLog.result = "no_active"
    /\ txMetrics.committedTransactions >= 1
    /\ ~tm.isTransactionActive /\ tm.client = 0

\* C15: getClient() returns a handle exactly when a transaction is active, and
\* the handle is the one the active transaction's begin acquired; in every other
\* state it throws.
C15_GetClientIffActive ==
    /\ getClient(World).threw <=> ~tm.isTransactionActive
    /\ ~getClient(World).threw =>
          getClient(World).client = lease[tmLog.lease].client

\* C15 witness: a begin is in progress with the client already assigned, and
\* getClient() throws.
C15_Witness ==
    /\ tmPc.at = "begin_BEGIN"
    /\ tm.client # 0
    /\ getClient(World).threw

\* C20: a release of a tracked handle destroys the physical connection when an
\* error or forceDiscard = true is given, and returns it to the idle pool
\* otherwise.
C20_DiscardIffErrorOrForce ==
    [][\A id \in ConnIds, api \in {"release", "releaseConnection"}, arg \in ReleaseArgs :
          (/\ lease[id].client # 0
           /\ Tracked(World, clientObj[lease[id].client].connId)
           /\ CallerRelease(id, api, arg))
          => pgPool'[lease[id].client] =
                IF arg \in {"error", "true"} THEN "removed" ELSE "idle"]_vars

\* C20 witness: a lease was released without an Error and its connection was
\* destroyed (forceDiscard), and another lease was returned to the idle pool.
C20_Witness ==
    /\ \E id \in ConnIds :
          /\ lease[id].fate = "discarded"
          /\ \E i \in 1..Len(metrics.connectionHistory) :
                metrics.connectionHistory[i] = [type |-> "released", connectionId |-> id]
    /\ \E id \in ConnIds : lease[id].fate = "recycled"

\* C16: a getConnection call that failed has counted the failure, recorded a
\* failed_acquire event and thrown a DatabaseConnectionError, with or without a
\* listener on the manager's 'error' event.
C16_FailedAcquireThrowsConnectionError ==
    \A s \in Slots :
        calls[s].error # "none" =>
            /\ metrics.failedAcquisitions >= 1
            /\ \E i \in 1..Len(metrics.connectionHistory) :
                  metrics.connectionHistory[i].type = "failed_acquire"
            /\ calls[s].error = "DatabaseConnectionError"

\* C12: of two beginTransaction calls that overlap, at most one becomes an
\* active transaction (pushes its history entry at line 157).
C12_OneBeginWins ==
    racer.rivalTxn # 0 =>
        ~(/\ HistoryEntries(racer.rivalTxn) # {}
          /\ HistoryEntries(racer.txn) # {})

\* C17: once dispose() of the ConnectionPoolManager has completed, every
\* getConnection call made afterwards has failed without being suspended: it is
\* recorded as a failed acquisition, has no lease, is not in the tracking table,
\* and the active-lease counter stays 0.
C17_NoAcquireAfterDispose ==
    disposal.completed =>
        /\ \A s \in Slots :
              calls[s].pc # "free" => calls[s].id < disposal.connIdAtEnd
        /\ \A id \in ConnIds :
              (disposal.connIdAtEnd <= id /\ id < nextConnId) =>
                  /\ lease[id] = NoLease
                  /\ id \notin connectionTimestamps
                  /\ \E i \in 1..Len(metrics.connectionHistory) :
                        metrics.connectionHistory[i] =
                            [type |-> "failed_acquire", connectionId |-> id]
        /\ metrics.activeLeasedConnections = 0

\* C17 witness: dispose() has completed on a manager that had leased a
\* connection, and getConnection has been called since.
C17_Witness ==
    /\ disposal.completed
    /\ nextConnId > disposal.connIdAtEnd
    /\ metrics.acquiredConnections >= 1
    /\ metrics.failedAcquisitions >= 1

\* C18: a dispose() called on a ConnectionPoolManager whose dispose() has
\* completed succeeds as well.
C18_SecondDisposeSucceeds ==
    disposal.completed => disposal.last = "ok"

\* C19: once dispose() of the ConnectionPoolManager has completed, its interval
\* timer no longer runs, the tracking table is empty and activeLeasedConnections
\* is 0.
C19_DisposeClearsTracking ==
    disposal.completed =>
        /\ ~metricsLoggingInterval
        /\ ~ENABLED MetricsTick
        /\ connectionTimestamps = {}
        /\ metrics.activeLeasedConnections = 0

\* C19 witness: dispose() has completed, and a lease was tracked when it was
\* called.
C19_Witness ==
    /\ disposal.completed
    /\ disposal.leased >= 1
    /\ disposal.last = "ok"

\* A statement issued through the wrapper of connection id has not completed.
InFlight(id) ==
    \/ \E j \in ConnIds : lease[j].q = id \/ lease[j].q2 = id
    \/ \E s \in Slots : calls[s].pc \in {"iso", "ro"} /\ calls[s].via = id
    \/ tmPc.at # "idle" /\ tmPc.via = id
    \/ racer.pc.at # "idle" /\ racer.pc.via = id
    \/ racer.call.pc \in {"iso", "ro"} /\ racer.call.via = id

\* C21: every step that releases a tracked lease leaves no timer pending for it
\* and takes one off activeLeasedConnections, not below zero; a lease that is
\* no longer tracked has no pending timer, so that no timeout callback starts
\* for it.  The metrics may have been reset and the manager disposed.
C21_ReleaseClearsTimerAndDecrements ==
    /\ [][\A id \in ConnIds :
            (/\ id \in connectionTimestamps
             /\ id \notin connectionTimestamps'
             /\ disposal'.completed = disposal.completed)
            => /\ ~timer'[id]
               /\ metrics'.activeLeasedConnections =
                     Max(0, metrics.activeLeasedConnections - 1)]_vars
    /\ [](\A id \in ConnIds : timer[id] => id \in connectionTimestamps)

\* C21 witness: after a reset of the metrics a lease was released while its
\* query was in flight (the driver reported an error on the connection); its
\* timer is cleared and the counter stayed at zero.
C21_Witness ==
    \E id \in ConnIds :
        /\ lease[id].q = id
        /\ lease[id].fate = "discarded"
        /\ id \notin connectionTimestamps
        /\ ~timer[id]
        /\ metrics.acquiredConnections = 0
        /\ metrics.releasedConnections = 1
        /\ metrics.activeLeasedConnections = 0

\* C22: a deadline timer fires (and starts the timeout callback with its error
\* event, cancellation and forced release) only while a statement issued
\* through its wrapper has not completed.
C22_TimerFiresOnlyInFlight ==
    [][\A id \in ConnIds :
          (timer[id] /\ ~lease[id].timedOut /\ lease'[id].timedOut)
          => InFlight(id)]_vars

\* C30: while a statement issued through the wrapper of a tracked lease has not
\* completed, the wrapper's deadline timer is pending or its timeout callback
\* has started.
C30_InFlightCoveredByTimer ==
    \A id \in ConnIds :
        (InFlight(id) /\ id \in connectionTimestamps) =>
            \/ timer[id]
            \/ handler[id].pc # "none"
            \/ lease[id].timedOut

\* C23: a driver 'error' event on a checked-out client whose lease is tracked
\* releases that lease once, whatever the number of listeners on the client:
\* one more released connection, one active lease less, one
\* client_error_released entry, the connection destroyed; and every step counts
\* as many releases as it takes leases off the tracking table, so that a later
\* release of the same handle counts nothing.
C23_DriverErrorReleasesOnce ==
    /\ [][\A c \in Clients :
            (DriverError(c) /\ Tracked(World, clientObj[c].connId)) =>
                LET id == clientObj[c].connId
                    h == metrics'.connectionHistory
                IN  /\ metrics'.releasedConnections = metrics.releasedConnections + 1
                    /\ metrics'.activeLeasedConnections =
                          metrics.activeLeasedConnections - 1
                    /\ connectionTimestamps' = connectionTimestamps \ {id}
                    /\ pgPool'[c] = "removed"
                    /\ Len(h) = Len(metrics.connectionHistory) + 1
                    /\ h[Len(h)] = [type |-> "client_error_released",
                                    connectionId |-> id]]_vars
    /\ [][metrics'.releasedConnections - metrics.releasedConnections =
            Cardinality(connectionTimestamps \ connectionTimestamps')]_vars

\* C23 witness: the driver reported an error on a client that carries the
\* listeners of two leases while the second lease had a statement in flight;
\* the second lease is released and its connection destroyed.
C23_Witness ==
    \E id \in ConnIds :
        /\ lease[id].q = id
        /\ lease[id].fate = "discarded"
        /\ ~lease[id].timedOut
        /\ id \notin connectionTimestamps
        /\ clientObj[lease[id].client].listeners >= 2
        /\ metrics.releasedConnections = 2
        /\ metrics.activeLeasedConnections = 0

\* C24: no more leases are held at once than the pool has connections, so
\* that with a pool of one connection (PoolMax = 1) a getConnection call made
\* while a lease is held stays suspended as long as that lease is tracked;
\* and with a pool of one connection, once the connection is back in the pool
\* the suspended call gets its handle.
C24_SecondWaitsForFirst ==
    /\ [](Cardinality({id \in ConnIds : lease[id].fate = "leased"}) <= PoolMax)
    /\ PoolMax = 1 =>
          \A id \in ConnIds :
             (/\ \E s \in Slots : calls[s].pc = "connect" /\ calls[s].id = id
              /\ \E c \in Clients : pgPool[c] = "idle"
              /\ \A i \in ConnIds : handler[i].pc # "connect")
             ~> (lease[id].fate = "leased")

\* C24 witness: the second call was made and is suspended, and the first lease
\* has just been returned to the pool.
C24_Witness ==
    /\ \E s \in Slots : calls[s].pc = "connect" /\ calls[s].id = 2
    /\ lease[1].fate = "recycled"
    /\ \E c \in Clients : pgPool[c] = "idle"
    /\ metrics.connectionHistory =
          <<[type |-> "acquired", connectionId |-> 1],
            [type |-> "released", connectionId |-> 1]>>

\* C25: the steps of a timeout callback leave failedAcquisitions unchanged, and
\* once the callback of a lease has run to its end the connection history holds
\* a client_error_released entry of that lease.
C25_TimeoutRecordedAsErrorRelease ==
    /\ [][\A id \in ConnIds :
            (\/ \E pidKnown \in BOOLEAN : TimerFire(id, pidKnown)
             \/ \E cc \in Clients : HandlerConnectResolve(id, cc)
             \/ HandlerConnectReject(id)
             \/ HandlerCancelSettled(id))
            => metrics'.failedAcquisitions = metrics.failedAcquisitions]_vars
    /\ [](\A id \in ConnIds :
            handler[id].pc = "done" =>
                \E i \in 1..Len(metrics.connectionHistory) :
                    metrics.connectionHistory[i] =
                        [type |-> "client_error_released", connectionId |-> id])

\* C26: when commit() succeeds on a transaction begun with an isolation level
\* (no other beginTransaction call in between, so that the entry of the
\* current transaction is still 'active'), the transaction history then holds
\* exactly one entry of that transaction, with status 'committed', the
\* requested isolation level and a duration >= 0.
CommitSucceeds ==
    /\ tmPc.at = "commit"
    /\ tmPc'.at = "idle"
    /\ tmLog'.op = "commit"
    /\ tmLog'.result = "ok"

ActiveEntryOf(id) ==
    /\ HistoryEntries(id) # {}
    /\ \A i \in HistoryEntries(id) : txMetrics.transactionHistory[i].status = "active"

C26_CommittedEntryInHistory ==
    [][(/\ CommitSucceeds
        /\ tm.currentTransactionOptions.isolationLevel # "none"
        /\ ActiveEntryOf(tm.requestId))
       => LET h == txMetrics'.transactionHistory
              mine == {i \in 1..Len(h) : h[i].transactionId = tm.requestId}
          IN  /\ Cardinality(mine) = 1
              /\ Cardinality(HistoryEntries(tm.requestId)) = 1
              /\ \A i \in mine :
                    /\ h[i].status = "committed"
                    /\ h[i].isolationLevel = tm.currentTransactionOptions.isolationLevel
                    /\ h[i].duration >= 0]_vars

C26_Witness ==
    /\ TmAtRest
    /\ tmLog.op = "commit"
    /\ tmLog.result = "ok"
    /\ txMetrics.totalTransactions = 1
    /\ txMetrics.failedTransactions = 0
    /\ Len(txMetrics.transactionHistory) = 1
    /\ \E i \in HistoryEntries(tm.requestId) :
          /\ txMetrics.transactionHistory[i].status = "committed"
          /\ txMetrics.transactionHistory[i].isolationLevel = "SERIALIZABLE"
          /\ txMetrics.transactionHistory[i].duration >= 0

\* C29: a TransactionManager.dispose() step, the one that stops the periodic
\* monitor, changes nothing else: the manager keeps its handle and its active
\* flag, no statement is issued, no handle is released, and the pool, the
\* leases and both managers' counters are as they were.
TmDisposeStops == tm.metricsLoggingInterval /\ ~tm'.metricsLoggingInterval

C29_TmDisposeOnlyStopsMonitor ==
    [][TmDisposeStops =>
        /\ tm' = [tm EXCEPT !.metricsLoggingInterval = FALSE]
        /\ tmPc' = tmPc
        /\ tmLog' = tmLog
        /\ pgPool' = pgPool
        /\ clientObj' = clientObj
        /\ lease' = lease
        /\ timer' = timer
        /\ connectionTimestamps' = connectionTimestamps
        /\ metrics' = metrics
        /\ txMetrics' = txMetrics]_vars

C29_Witness ==
    /\ ~tm.metricsLoggingInterval
    /\ tm.isTransactionActive
    /\ tm.client # 0
    /\ pgPool[tm.client] = "out"
    /\ tmLog.releases = 0
    /\ TmAtRest

\* C27: the connection history never holds more than 200 entries and the
\* transaction history never more than 100; every step that records an entry
\* puts it last and keeps, of the entries held before, the most recent ones in
\* their order, dropping an entry only when the cap is exceeded.
\* h2 comes from h by `added' pushes under the cap: the entries of h that are
\* kept are its last ones, in order, at the front of h2.
KeepsMostRecent(h, h2, cap) ==
    \E added \in 0..2 :
        LET dropped == Max(0, Len(h) + added - cap)
        IN  /\ Len(h2) = Len(h) + added - dropped
            /\ \A i \in 1..(Len(h) - dropped) : h2[i] = h[i + dropped]

\* What an entry of the transaction history keeps for good: its status and
\* duration are updated in place when the transaction ends.
Pushed(h) ==
    [i \in 1..Len(h) |-> [transactionId |-> h[i].transactionId,
                          startTime |-> h[i].startTime,
                          isolationLevel |-> h[i].isolationLevel,
                          readOnly |-> h[i].readOnly]]

LastEntry(h) == h[Len(h)]

BeginSucceeds ==
    /\ tmPc.at # "idle"
    /\ tmPc'.at = "idle"
    /\ tmLog'.op = "begin"
    /\ tmLog'.result = "ok"

C27_HistoriesCappedOldestFirst ==
    /\ [](/\ Len(metrics.connectionHistory) <= MAX_HISTORY_SIZE
          /\ Len(txMetrics.transactionHistory) <= MAX_TXN_HISTORY)
    /\ [][/\ KeepsMostRecent(metrics.connectionHistory, metrics'.connectionHistory,
                             MAX_HISTORY_SIZE)
          /\ KeepsMostRecent(Pushed(txMetrics.transactionHistory),
                             Pushed(txMetrics'.transactionHistory),
                             MAX_TXN_HISTORY)
          /\ metrics'.acquiredConnections # metrics.acquiredConnections
                => /\ metrics'.connectionHistory # <<>>
                   /\ LastEntry(metrics'.connectionHistory).type = "acquired"
                   /\ LastEntry(metrics'.connectionHistory).connectionId = nextConnId - 1
          /\ metrics'.releasedConnections # metrics.releasedConnections
                => /\ metrics'.connectionHistory # <<>>
                   /\ LastEntry(metrics'.connectionHistory).type
                         \in {"released", "client_error_released"}
          /\ BeginSucceeds
                => /\ txMetrics'.transactionHistory # <<>>
                   /\ LastEntry(txMetrics'.transactionHistory).transactionId
                         = tmPc.transactionId
                   /\ LastEntry(txMetrics'.transactionHistory).status = "active"]_vars

\* Both histories are full, an entry of the past has been evicted from each,
\* and the newest entries are those of the explored run.
C27_Witness ==
    /\ Len(metrics.connectionHistory) = MAX_HISTORY_SIZE
    /\ Len(txMetrics.transactionHistory) = MAX_TXN_HISTORY
    /\ metrics.connectionHistory[1] = [type |-> "released", connectionId |-> PastId(1)]
    /\ txMetrics.transactionHistory[1].transactionId = PastId(2)
    /\ LastEntry(metrics.connectionHistory) = [type |-> "acquired", connectionId |-> 2]
    /\ LastEntry(txMetrics.transactionHistory).transactionId = 2
    /\ LastEntry(txMetrics.transactionHistory).status = "active"

\* C28: the list of recorded transaction durations never holds more than
\* 1000 entries.
C28_DurationWindowBounded ==
    txMetrics.transactionDurations <= MAX_DURATIONS

\* C31: in every reachable state at most one deadline timer is pending per
\* handle: the wrapper of a lease has no pending timer besides the one its
\* variable holds, also after a second statement was issued while the timer
\* of the first was pending, and no two leases of one client have a pending
\* timer at once.
C31_OneTimerPerHandle ==
    /\ \A id \in ConnIds : lease[id].strayTimers = 0
    /\ \A c \in Clients :
          Cardinality({id \in ConnIds : lease[id].client = c /\ timer[id]}) <= 1

\* C31 witness: a second statement was issued through the wrapper while the
\* first was in flight with its timer pending, and one timer is pending.
C31_Witness ==
    \E id \in ConnIds :
        /\ lease[id].q = id
        /\ lease[id].q2 = id
        /\ timer[id]
        /\ lease[id].strayTimers = 0

\* C32: when the cancellation of a timed-out statement ends, whether the
\* helper connection could not be acquired or the cancel statement has
\* settled, the timeout callback runs to its end; a lease that is still
\* tracked is then released as an error release, and the helper connection
\* that was acquired is no longer checked out.
CancellationEnds(id) ==
    \/ handler[id].pc = "connect" /\ handler'[id].pc \notin {"connect", "cancel"}
    \/ handler[id].pc = "cancel" /\ handler'[id].pc # "cancel"

C32_CancelFailureNotEscalated ==
    [][\A id \in ConnIds :
         CancellationEnds(id) =>
            /\ handler'[id].pc = "done"
            /\ (Tracked(World, id) /\ clientObj[lease[id].client].connId = id)
                  => /\ id \notin connectionTimestamps'
                     /\ LastEntry(metrics'.connectionHistory) =
                           [type |-> "client_error_released", connectionId |-> id]
            /\ handler[id].pc = "cancel"
                  => pgPool'[handler[id].cancelClient] # "out"]_vars

\* C33: a tick of either manager's periodic monitor leaves the lease tracking
\* table, the counters and the history of the lease manager, the transaction
\* manager's fields, counters and history, the leases, the timers and the
\* pool's clients unchanged; only the three pool-occupancy fields may change.
WithoutSnapshot(m) ==
    [m EXCEPT !.poolTotalCount = 0, !.poolIdleCount = 0, !.poolWaitingCount = 0]

C33_MonitorTickMutatesNothing ==
    [][(MetricsTick \/ TmMetricsTick) =>
         /\ connectionTimestamps' = connectionTimestamps
         /\ WithoutSnapshot(metrics') = WithoutSnapshot(metrics)
         /\ txMetrics' = txMetrics
         /\ tm' = tm
         /\ tmPc' = tmPc
         /\ lease' = lease
         /\ timer' = timer
         /\ clientObj' = clientObj
         /\ pgPool' = pgPool]_vars

\* C33 witness: the monitor has sampled the pool during an active transaction.
C33_Witness ==
    /\ tm.isTransactionActive
    /\ tm.client # 0
    /\ connectionTimestamps # {}
    /\ metrics.activeLeasedConnections = 1
    /\ metrics.poolTotalCount = 1
    /\ metrics.poolIdleCount = 0

\* C34: a step of the timeout callback of one lease leaves every other lease
\* as it was: a lease that is tracked stays tracked, and it is neither
\* recycled nor discarded by that step.
CallbackStep(id) == handler'[id] # handler[id]

C34_CallbackReleasesOnlyItsLease ==
    [][\A id \in ConnIds :
         CallbackStep(id) =>
            \A j \in ConnIds \ {id} :
                j \in connectionTimestamps =>
                    /\ j \in connectionTimestamps'
                    /\ lease'[j].fate = lease[j].fate]_vars

\* C35: between the operations of a TransactionManager whose history holds
\* fewer than 100 entries, the history holds exactly one entry with status
\* 'active' when the manager is active and none when it is idle.
ActiveEntries ==
    {i \in 1..Len(txMetrics.transactionHistory) :
        txMetrics.transactionHistory[i].status = "active"}

C35_ActiveEntryIffActive ==
    (TmAtRest /\ Len(txMetrics.transactionHistory) < MAX_TXN_HISTORY) =>
        Cardinality(ActiveEntries) = IF tm.isTransactionActive THEN 1 ELSE 0


\* C36: in every state reached by getConnection, release, resetMetrics and
\* dispose, the activeLeasedConnections counter equals the number of handles
\* in the lease tracking table.
C36_ActiveCounterIsTableSize ==
    metrics.activeLeasedConnections = Cardinality(connectionTimestamps)


\* The connection ids of the getConnection calls that the connection history
\* records with the given outcome.
IdsRecorded(type) ==
    {metrics.connectionHistory[i].connectionId :
        i \in {j \in DOMAIN metrics.connectionHistory :
                  metrics.connectionHistory[j].type = type}}

\* C37: a getConnection call changes one of the two outcome counters only: no
\* call is counted both as acquired and as failed, each outcome counter counts
\* the calls with that outcome, and a call that threw, in acquisition or in a
\* setup statement, has left no lease in the tracking table.
C37_OneOutcomePerCall ==
    /\ IdsRecorded("acquired") \cap IdsRecorded("failed_acquire") = {}
    /\ IdsRecorded("failed_acquire") \cap connectionTimestamps = {}
    /\ metrics.acquiredConnections = Cardinality(IdsRecorded("acquired"))
    /\ metrics.failedAcquisitions = Cardinality(IdsRecorded("failed_acquire"))


\* C38: maxConcurrentLeasedConnections is a high-water mark: it is at least
\* activeLeasedConnections in every state, and no step of getConnection,
\* release, resetMetrics or dispose decreases it.
C38_HighWaterMark ==
    /\ [](metrics.maxConcurrentLeasedConnections >= metrics.activeLeasedConnections)
    /\ [][metrics'.maxConcurrentLeasedConnections
            >= metrics.maxConcurrentLeasedConnections]_vars

\* C38 witness: the metrics have been reset while a handle was leased, and the
\* handle is still leased.
C38_Witness ==
    /\ metrics.maxConcurrentLeasedConnections = 1
    /\ metrics.acquiredConnections = 0
    /\ metrics.connectionHistory = <<>>
    /\ connectionTimestamps # {}


\* C39: between the calls of beginTransaction, commit, rollback and
\* resetMetrics on one TransactionManager, the activeTransactions counter is 1
\* when isActive() is true and 0 when it is false.
C39_ActiveCounterIsFlag ==
    TmAtRest =>
        txMetrics.activeTransactions = IF tm.isTransactionActive THEN 1 ELSE 0


\* C39 witness: the metrics were reset while a transaction was active, and the
\* transaction is still active.
C39_Witness ==
    /\ TmAtRest
    /\ tm.isTransactionActive
    /\ txMetrics.totalTransactions = 0
    /\ txMetrics.activeTransactions = 1


\* C40: once the deadline timer of a handle has fired, the handle is eventually
\* removed from the lease tracking table, the pool being exhausted or not.
C40_TimedOutHandleRemoved ==
    \A id \in ConnIds :
        lease[id].timedOut ~> (id \notin connectionTimestamps)

====
